---- MODULE Spec2Model ----
(***************************************************************************)
(* A model of idle_cash (src/main.py): the three fee functions, the FX     *)
(* conversion and return formulas, and the run of main() from the input    *)
(* prompts to the final recommendation.                                    *)
(*                                                                         *)
(* Numbers.  The program computes with Python floats.  The model computes  *)
(* with exact rationals <<n, d>> (d > 0, lowest terms), so every property  *)
(* below is a property of the program's formulas in exact arithmetic;      *)
(* float rounding is outside the model.                                    *)
(***************************************************************************)
EXTENDS Integers, Sequences, FiniteSets, TLC

(***************************************************************************)
(* Exact rational arithmetic                                               *)
(***************************************************************************)
Abs(x) == IF x < 0 THEN -x ELSE x

RECURSIVE GCD(_, _)
GCD(a, b) == IF b = 0 THEN a ELSE GCD(b, a % b)

\* n/d in lowest terms with a positive denominator (d # 0).
Rat(n, d) ==
    LET g == GCD(Abs(n), Abs(d))
        s == IF d < 0 THEN -1 ELSE 1
    IN  <<(s * n) \div g, (s * d) \div g>>

Num(n) == <<n, 1>>

RECURSIVE Pow10(_)
Pow10(k) == IF k = 0 THEN 1 ELSE 10 * Pow10(k - 1)

\* The decimal literal m * 10^-k, e.g. Dec(2, 1) is 0.2 and Dec(1, 4) is 0.0001.
Dec(m, k) == Rat(m, Pow10(k))

RNeg(a) == <<-a[1], a[2]>>

RAdd(a, b) ==
    LET g == GCD(a[2], b[2])
        l == (a[2] \div g) * b[2]
    IN  Rat(a[1] * (l \div a[2]) + b[1] * (l \div b[2]), l)

RSub(a, b) == RAdd(a, RNeg(b))

RMul(a, b) ==
    LET g1 == GCD(Abs(a[1]), b[2])
        g2 == GCD(Abs(b[1]), a[2])
    IN  Rat((a[1] \div g1) * (b[1] \div g2), (a[2] \div g2) * (b[2] \div g1))

\* a / b for b # 0.
RDiv(a, b) == RMul(a, Rat(b[2], b[1]))

\* a < b, by integer parts and then (Euclid) by the reciprocals of the
\* fractional parts, so that no cross product is formed.
RECURSIVE RLt(_, _)
RLt(a, b) ==
    LET fa == a[1] \div a[2]
        fb == b[1] \div b[2]
        ra == a[1] % a[2]
        rb == b[1] % b[2]
    IN  IF fa # fb THEN fa < fb
        ELSE IF rb = 0 THEN FALSE
        ELSE IF ra = 0 THEN TRUE
        ELSE RLt(<<b[2], rb>>, <<a[2], ra>>)

RGt(a, b) == RLt(b, a)
RLe(a, b) == ~RLt(b, a)
RGe(a, b) == ~RLt(a, b)

\* Python's max(a, b) and min(a, b): the first argument unless the second is
\* strictly greater (resp. smaller).
PyMax(a, b) == IF RGt(b, a) THEN b ELSE a
PyMin(a, b) == IF RLt(b, a) THEN b ELSE a

\* A local that has not been assigned yet, and Python's None.
Unset == <<>>
PyNone == <<"None">>

(***************************************************************************)
(* Fee Calculator                                                          *)
(***************************************************************************)
calculate_ib_fx_fee(usd_amount) ==
    PyMax(Num(2), RMul(RMul(Dec(2, 1), Dec(1, 4)), usd_amount))

\* The two-tier bond fee with the tiers' rates exchanged.
calculate_ib_bond_fee_TiersSwapped(face_value) ==
    IF RLe(face_value, Num(1000000))
    THEN PyMax(RMul(Dec(1, 4), face_value), Num(5))
    ELSE PyMax(RMul(RMul(Dec(2, 3), Dec(1, 4)), face_value), Num(5))

calculate_ib_bond_fee(face_value) ==
    IF RLe(face_value, Num(1000000))
    THEN PyMax(RMul(RMul(Dec(2, 3), Dec(1, 4)), face_value), Num(5))
    ELSE PyMax(RMul(Dec(1, 4), face_value), Num(5))

calculate_futu_bond_fee(face_value) ==
    LET commission == PyMax(RMul(Dec(8, 4), face_value), Num(2))
        platform_fee == PyMin(PyMax(RMul(Dec(4, 4), face_value), Num(2)), Num(15))
    IN  RAdd(commission, platform_fee)

(***************************************************************************)
(* Return Calculator                                                       *)
(***************************************************************************)
\* fx_fee_function is "None" (the default argument) or the name of a fee
\* function; a function object is truthy, None is not.
CallFee(fx_fee_function, usd_amount) ==
    IF fx_fee_function = "calculate_ib_fx_fee"
    THEN calculate_ib_fx_fee(usd_amount)
    ELSE Num(0)

calculate_usd_received(capital_hkd_, fx_rate, fx_fee_function) ==
    LET usd_amount == RMul(capital_hkd_, fx_rate)
    IN  IF fx_fee_function # "None"
        THEN RSub(usd_amount, CallFee(fx_fee_function, usd_amount))
        ELSE usd_amount

calculate_ib_money_market_return(principal_usd, fed_rate_) ==
    RMul(principal_usd, RSub(fed_rate_, Dec(5, 3)))

calculate_futu_money_market_return(principal_usd, annualized_return) ==
    RMul(principal_usd, RDiv(annualized_return, Num(100)))

calculate_hk_money_market_return(capital_hkd_, annualized_return) ==
    RMul(capital_hkd_, RDiv(annualized_return, Num(100)))

(***************************************************************************)
(* main(): the pure parts of its steps                                     *)
(***************************************************************************)
default_capital_hkd == Num(2000000)
default_ib_fx_rate == Dec(128, 3)
default_futu_fx_rate == Dec(12785, 5)
default_futu_annualized_return_usd == Dec(48491, 4)
default_futu_annualized_return_hkd == Dec(38, 1)
default_preferential_rate_hkd == Dec(35, 1)

\* float(s) for the texts the model types at the prompts; float raises
\* ValueError on every other text.
FloatLiteral ==
    ("1000" :> Num(1000)) @@ ("0" :> Num(0)) @@ ("-1000" :> Num(-1000)) @@
    ("1.002" :> Dec(1002, 3)) @@ ("1" :> Num(1)) @@
    ("3.5" :> Dec(35, 1)) @@ ("3.6" :> Dec(36, 1)) @@ ("-100" :> Num(-100))

\* float(input(...) or default): the empty text is falsy, so the default is
\* converted; any other text, "0" included, is converted itself.
FloatRaises(text) == text # "" /\ text \notin DOMAIN FloatLiteral
FloatOf(text, default) == IF text = "" THEN default ELSE FloatLiteral[text]

\* line 92 with "or" replaced by "and".
BondRatesMissing_And(b1y, b10y) == b1y = PyNone /\ b10y = PyNone

\* line 92: bond_rate_1y is None or bond_rate_10y is None
BondRatesMissing(b1y, b10y) == b1y = PyNone \/ b10y = PyNone

\* line 100 with the test dropped.
FedRateMissing_Never(rate) == FALSE

\* line 100: fed_rate is None
FedRateMissing(rate) == rate = PyNone

MoneyMarket == "Money Market Fund (USD)"
Bond == "Bond (USD)"

\* lines 141-146 with ">=" for ">".
BestOfTwo_NonStrict(money_market_return, bond_return) ==
    IF RGe(money_market_return, bond_return)
    THEN <<money_market_return, MoneyMarket>>
    ELSE <<bond_return, Bond>>

\* lines 141-146 and 149-154: <<best return, best option>>
BestOfTwo(money_market_return, bond_return) ==
    IF RGt(money_market_return, bond_return)
    THEN <<money_market_return, MoneyMarket>>
    ELSE <<bond_return, Bond>>

\* line 190 with min for max.
BestHkdReturn_Min(total_preferential, total_futu_hkd) ==
    PyMin(total_preferential, total_futu_hkd)

\* line 190
BestHkdReturn(total_preferential, total_futu_hkd) ==
    PyMax(total_preferential, total_futu_hkd)

\* line 193 with the quotient inverted.
ExchangeRateThreshold_Inverted(best_usd, best_hkd) ==
    IF best_usd[1] = 0 THEN Unset ELSE RDiv(best_hkd, best_usd)

\* line 193: best_usd_return / best_hkd_return; Unset stands for the
\* ZeroDivisionError that a zero divisor raises.
ExchangeRateThreshold(best_usd, best_hkd) ==
    IF best_hkd[1] = 0 THEN Unset ELSE RDiv(best_usd, best_hkd)

\* input(...).strip().upper() on a text given as a sequence of characters.
Whitespace == {" ", "\t", "\n"}
LowerCase == <<"a","b","c","d","e","f","g","h","i","j","k","l","m",
               "n","o","p","q","r","s","t","u","v","w","x","y","z">>
UpperCase == <<"A","B","C","D","E","F","G","H","I","J","K","L","M",
               "N","O","P","Q","R","S","T","U","V","W","X","Y","Z">>

RECURSIVE LStrip(_)
LStrip(t) == IF t # <<>> /\ Head(t) \in Whitespace THEN LStrip(Tail(t)) ELSE t

RECURSIVE RStrip(_)
RStrip(t) ==
    IF t # <<>> /\ t[Len(t)] \in Whitespace
    THEN RStrip(SubSeq(t, 1, Len(t) - 1))
    ELSE t

Strip(t) == RStrip(LStrip(t))

UpperChar(c) ==
    IF \E i \in 1..26 : LowerCase[i] = c
    THEN UpperCase[CHOOSE i \in 1..26 : LowerCase[i] = c]
    ELSE c

Upper(t) == [i \in 1..Len(t) |-> UpperChar(t[i])]

USD == <<"U", "S", "D">>
HKD == <<"H", "K", "D">>

\* lines 209-220 with the final else printing the USD headline.
ReportCurrency_DefaultUSD(currency, best_usd, best_hkd, threshold) ==
    IF currency = HKD
    THEN [headline |-> <<"HKD", best_hkd>>, converted |-> Unset,
          invalid |-> FALSE, exc |-> "none"]
    ELSE [headline |-> <<"USD", best_usd>>, converted |-> Unset,
          invalid |-> FALSE, exc |-> "none"]

\* lines 209-220: what the branch on preferred_currency prints.  In the HKD
\* branch the headline is printed before best_usd_return / exchange_rate_threshold
\* is evaluated, which raises ZeroDivisionError when the threshold is zero.
ReportCurrency(currency, best_usd, best_hkd, threshold) ==
    IF currency = USD
    THEN [headline |-> <<"USD", best_usd>>,
          converted |-> IF RLt(best_usd, RMul(best_hkd, threshold))
                        THEN <<"USD", RMul(best_hkd, threshold)>> ELSE Unset,
          invalid |-> FALSE, exc |-> "none"]
    ELSE IF currency = HKD
    THEN IF threshold[1] = 0
         THEN [headline |-> <<"HKD", best_hkd>>, converted |-> Unset,
               invalid |-> FALSE, exc |-> "ZeroDivisionError"]
         ELSE [headline |-> <<"HKD", best_hkd>>,
               converted |-> IF RLt(best_hkd, RDiv(best_usd, threshold))
                             THEN <<"HKD", RDiv(best_usd, threshold)>> ELSE Unset,
               invalid |-> FALSE, exc |-> "none"]
    ELSE [headline |-> Unset, converted |-> Unset, invalid |-> TRUE, exc |-> "none"]

\* lines 226-233 with ">=" for ">" in the first branch.
FinalResult_NonStrict(t_ib, t_futu_usd, t_pref, t_futu_hkd, ib_option, futu_option) ==
    IF RGe(t_ib, t_futu_usd) /\ RGe(t_ib, t_pref) /\ RGe(t_ib, t_futu_hkd)
    THEN <<"IB", ib_option>>
    ELSE IF RGt(t_futu_usd, t_ib) /\ RGt(t_futu_usd, t_pref) /\ RGt(t_futu_usd, t_futu_hkd)
    THEN <<"FUTU", futu_option>>
    ELSE IF RGt(t_futu_hkd, t_ib) /\ RGt(t_futu_hkd, t_pref) /\ RGt(t_futu_hkd, t_futu_usd)
    THEN <<"FUTU HK Money Market Fund", "">>
    ELSE <<"SCB Preferential Rate", "">>

\* lines 226-233: <<who offers the better return, by investing in what>>
FinalResult(t_ib, t_futu_usd, t_pref, t_futu_hkd, ib_option, futu_option) ==
    IF RGt(t_ib, t_futu_usd) /\ RGt(t_ib, t_pref) /\ RGt(t_ib, t_futu_hkd)
    THEN <<"IB", ib_option>>
    ELSE IF RGt(t_futu_usd, t_ib) /\ RGt(t_futu_usd, t_pref) /\ RGt(t_futu_usd, t_futu_hkd)
    THEN <<"FUTU", futu_option>>
    ELSE IF RGt(t_futu_hkd, t_ib) /\ RGt(t_futu_hkd, t_pref) /\ RGt(t_futu_hkd, t_futu_usd)
    THEN <<"FUTU HK Money Market Fund", "">>
    ELSE <<"SCB Preferential Rate", "">>

(***************************************************************************)
(* State                                                                   *)
(***************************************************************************)
VARIABLES
    pc,                 \* the statement of main() the run is at
    exc,                \* the exception that ended the run, or "none"
    out,                \* the kinds of line printed so far
    capital_hkd, ib_fx_rate, futu_fx_rate,
    futu_annualized_return_usd, futu_annualized_return_hkd, preferential_rate_hkd,
    bond_rate_1y, bond_rate_10y, best_bond_rate, fed_rate,
    usd_received_ib, usd_received_futu,
    ib_money_market_return, futu_money_market_return_usd,
    ib_bond_return, futu_bond_return,
    futu_money_market_return_hkd, preferential_return,
    best_ib_return, best_ib_option, best_futu_return_usd, best_futu_option_usd,
    total_ib_return, total_futu_return_usd,
    total_preferential_return, total_futu_return_hkd,
    best_usd_return, best_hkd_return,
    exchange_rate_threshold, best_usd_method, best_hkd_method,
    preferred_currency, headline, converted_return, final_result,
    fee_pc,             \* the fee functions applied to the pair so far
    x1, x2,             \* a pair of amounts handed to the fee functions
    fx_fee, bond_fee, futu_fee   \* <<fee(x1), fee(x2)>> of each fee function

inputs == <<capital_hkd, ib_fx_rate, futu_fx_rate, futu_annualized_return_usd,
            futu_annualized_return_hkd, preferential_rate_hkd>>
rates == <<bond_rate_1y, bond_rate_10y, best_bond_rate, fed_rate>>
received == <<usd_received_ib, usd_received_futu>>
returns == <<ib_money_market_return, futu_money_market_return_usd, ib_bond_return,
             futu_bond_return, futu_money_market_return_hkd, preferential_return>>
bests == <<best_ib_return, best_ib_option, best_futu_return_usd, best_futu_option_usd>>
totals == <<total_ib_return, total_futu_return_usd, total_preferential_return,
            total_futu_return_hkd, best_usd_return, best_hkd_return>>
outcome == <<exchange_rate_threshold, best_usd_method, best_hkd_method>>
report == <<preferred_currency, headline, converted_return>>
fees == <<fee_pc, x1, x2, fx_fee, bond_fee, futu_fee>>
run == <<pc, exc, out, inputs, rates, received, returns, bests, totals, outcome,
         report, final_result>>
vars == <<run, fees>>

(***************************************************************************)
(* What the model types at the prompts and what the rate sources answer     *)
(***************************************************************************)
\* "" takes the prompt's default.  The amounts are kept small enough for every
\* exact total to have a numerator and a denominator below 2^31; the default
\* capital of 2,000,000 does not, so the capital is always typed.
CapitalTexts == {"1000", "0", "-1000", "abc"}
IbFxTexts == {"", "1.002", "0"}
FutuFxTexts == {"", "1", "0"}
FutuUsdTexts == {"3.5", "3.6"}
FutuHkdTexts == {"", "3.5", "-100"}
PreferentialTexts == {"", "-100", "n/a"}
CurrencyTexts ==
    { <<"U", "S", "D">>, <<" ", "u", "s", "d", "\n">>, <<"h", "k", "d">>,
      <<"E", "U", "R">>, <<>> }

\* get_bond_rate: a yield in percent, or None (status not 200, no quote
\* element, unparsable text); requests.get may also raise.
BondAnswers == {PyNone, Num(0), Num(4)}
\* get_fed_rate: percentRate / 100, or None (no EFFR entry); requests.get
\* and the XML parse may also raise.
FedAnswers == {PyNone, Dec(4, 2), Dec(45, 3)}

(***************************************************************************)
(* main()                                                                  *)
(***************************************************************************)
\* lines 76-86
CollectInputs ==
    /\ pc = "input"
    /\ \E c \in CapitalTexts, i \in IbFxTexts, f \in FutuFxTexts, u \in FutuUsdTexts,
          h \in FutuHkdTexts, p \in PreferentialTexts :
          IF \E t \in {c, i, f, u, h, p} : FloatRaises(t)
          THEN /\ out' = out \cup {"Invalid input. Please enter numeric values."}
               /\ pc' = "returned"
               /\ UNCHANGED inputs
          ELSE /\ capital_hkd' = FloatOf(c, default_capital_hkd)
               /\ ib_fx_rate' = FloatOf(i, default_ib_fx_rate)
               /\ futu_fx_rate' = FloatOf(f, default_futu_fx_rate)
               /\ futu_annualized_return_usd'
                      = FloatOf(u, default_futu_annualized_return_usd)
               /\ futu_annualized_return_hkd'
                      = FloatOf(h, default_futu_annualized_return_hkd)
               /\ preferential_rate_hkd' = FloatOf(p, default_preferential_rate_hkd)
               /\ pc' = "fetch_bond_1y"
               /\ UNCHANGED out
    /\ UNCHANGED <<exc, rates, received, returns, bests, totals, outcome, report,
                   final_result, fees>>

\* line 89
FetchBondRate1y ==
    /\ pc = "fetch_bond_1y"
    /\ \/ \E r \in BondAnswers :
             /\ bond_rate_1y' = r
             /\ out' = IF r = PyNone THEN out \cup {"get_bond_rate failed"} ELSE out
             /\ pc' = "fetch_bond_10y"
             /\ UNCHANGED exc
       \/ /\ exc' = "RequestException"
          /\ pc' = "raised"
          /\ UNCHANGED <<bond_rate_1y, out>>
    /\ UNCHANGED <<inputs, bond_rate_10y, best_bond_rate, fed_rate, received, returns,
                   bests, totals, outcome, report, final_result, fees>>

\* line 90
FetchBondRate10y ==
    /\ pc = "fetch_bond_10y"
    /\ \/ \E r \in BondAnswers :
             /\ bond_rate_10y' = r
             /\ out' = IF r = PyNone THEN out \cup {"get_bond_rate failed"} ELSE out
             /\ pc' = "check_bond_rates"
             /\ UNCHANGED exc
       \/ /\ exc' = "RequestException"
          /\ pc' = "raised"
          /\ UNCHANGED <<bond_rate_10y, out>>
    /\ UNCHANGED <<inputs, bond_rate_1y, best_bond_rate, fed_rate, received, returns,
                   bests, totals, outcome, report, final_result, fees>>

\* lines 92-96
CheckBondRates ==
    /\ pc = "check_bond_rates"
    /\ IF BondRatesMissing(bond_rate_1y, bond_rate_10y)
       THEN /\ out' = out \cup {"Failed to retrieve bond rates."}
            /\ pc' = "returned"
            /\ UNCHANGED best_bond_rate
       ELSE /\ best_bond_rate' = PyMax(bond_rate_1y, bond_rate_10y)
            /\ pc' = "fetch_fed_rate"
            /\ UNCHANGED out
    /\ UNCHANGED <<exc, inputs, bond_rate_1y, bond_rate_10y, fed_rate, received,
                   returns, bests, totals, outcome, report, final_result, fees>>

\* lines 99-105
FetchFedRate ==
    /\ pc = "fetch_fed_rate"
    /\ \/ \E r \in FedAnswers :
             /\ fed_rate' = r
             /\ IF FedRateMissing(r)
                THEN /\ out' = out \cup {"Effective Federal Funds Rate (EFFR) not found",
                                         "Failed to retrieve the Fed rate."}
                     /\ pc' = "returned"
                ELSE /\ out' = out \cup {"Best bond rate", "Current Fed rate"}
                     /\ pc' = "usd_received"
             /\ UNCHANGED exc
       \/ /\ exc' = "RequestException"
          /\ pc' = "raised"
          /\ UNCHANGED <<fed_rate, out>>
    /\ UNCHANGED <<inputs, bond_rate_1y, bond_rate_10y, best_bond_rate, received,
                   returns, bests, totals, outcome, report, final_result, fees>>

\* lines 107-113
UsdReceived ==
    /\ pc = "usd_received"
    /\ usd_received_ib'
           = calculate_usd_received(capital_hkd, ib_fx_rate, "calculate_ib_fx_fee")
    /\ usd_received_futu' = calculate_usd_received(capital_hkd, futu_fx_rate, "None")
    /\ out' = out \cup {"USD received with IB", "USD received with FUTU"}
    /\ pc' = "returns"
    /\ UNCHANGED <<exc, inputs, rates, returns, bests, totals, outcome, report,
                   final_result, fees>>

\* lines 115-138
Returns ==
    /\ pc = "returns"
    /\ ib_money_market_return'
           = calculate_ib_money_market_return(usd_received_ib, fed_rate)
    /\ futu_money_market_return_usd'
           = calculate_futu_money_market_return(usd_received_futu,
                                                futu_annualized_return_usd)
    /\ ib_bond_return'
           = RSub(RMul(usd_received_ib, RDiv(best_bond_rate, Num(100))),
                  calculate_ib_bond_fee(usd_received_ib))
    /\ futu_bond_return'
           = RSub(RMul(usd_received_futu, RDiv(best_bond_rate, Num(100))),
                  calculate_futu_bond_fee(usd_received_futu))
    /\ futu_money_market_return_hkd'
           = calculate_hk_money_market_return(capital_hkd, futu_annualized_return_hkd)
    /\ preferential_return' = RMul(capital_hkd, RDiv(preferential_rate_hkd, Num(100)))
    /\ out' = out \cup {"IB money market return", "FUTU money market return",
                        "IB bond return", "FUTU bond return",
                        "FUTU HK money market return", "Preferential rate return"}
    /\ pc' = "best_of_two"
    /\ UNCHANGED <<exc, inputs, rates, received, bests, totals, outcome, report,
                   final_result, fees>>

\* lines 140-154
CompareReturns ==
    /\ pc = "best_of_two"
    /\ best_ib_return' = BestOfTwo(ib_money_market_return, ib_bond_return)[1]
    /\ best_ib_option' = BestOfTwo(ib_money_market_return, ib_bond_return)[2]
    /\ best_futu_return_usd'
           = BestOfTwo(futu_money_market_return_usd, futu_bond_return)[1]
    /\ best_futu_option_usd'
           = BestOfTwo(futu_money_market_return_usd, futu_bond_return)[2]
    /\ pc' = "totals"
    /\ UNCHANGED <<exc, out, inputs, rates, received, returns, totals, outcome, report,
                   final_result, fees>>

\* lines 156-190
Totals ==
    /\ pc = "totals"
    /\ out' = out \cup {"results table"}
    /\ total_ib_return' = RAdd(usd_received_ib, best_ib_return)
    /\ total_futu_return_usd' = RAdd(usd_received_futu, best_futu_return_usd)
    /\ total_preferential_return' = RAdd(capital_hkd, preferential_return)
    /\ total_futu_return_hkd' = RAdd(capital_hkd, futu_money_market_return_hkd)
    /\ best_usd_return' = PyMax(total_ib_return', total_futu_return_usd')
    /\ best_hkd_return' = BestHkdReturn(total_preferential_return', total_futu_return_hkd')
    /\ pc' = "threshold"
    /\ UNCHANGED <<exc, inputs, rates, received, returns, bests, outcome, report,
                   final_result, fees>>

\* lines 192-204
Threshold ==
    /\ pc = "threshold"
    /\ IF ExchangeRateThreshold(best_usd_return, best_hkd_return) = Unset
       THEN /\ exc' = "ZeroDivisionError"
            /\ pc' = "raised"
            /\ UNCHANGED outcome
       ELSE /\ exchange_rate_threshold'
                   = ExchangeRateThreshold(best_usd_return, best_hkd_return)
            /\ best_usd_method' = IF best_usd_return = total_ib_return
                                  THEN <<"IB", best_ib_option>>
                                  ELSE <<"FUTU", best_futu_option_usd>>
            /\ best_hkd_method' = IF best_hkd_return = total_preferential_return
                                  THEN "SCB Preferential Rate"
                                  ELSE "FUTU HK Money Market Fund"
            /\ pc' = "ask_currency"
            /\ UNCHANGED exc
    /\ UNCHANGED <<out, inputs, rates, received, returns, bests, totals, report,
                   final_result, fees>>

\* lines 206-220
AskCurrency ==
    /\ pc = "ask_currency"
    /\ \E text \in CurrencyTexts :
          LET currency == Upper(Strip(text))
              r == ReportCurrency(currency, best_usd_return, best_hkd_return,
                                  exchange_rate_threshold)
          IN  /\ preferred_currency' = currency
              /\ headline' = r.headline
              /\ converted_return' = r.converted
              /\ out' = out
                          \cup (IF r.headline # Unset THEN {"Best return"} ELSE {})
                          \cup (IF r.converted # Unset THEN {"Converted return"} ELSE {})
                          \cup (IF r.invalid
                                THEN {"Invalid input. Please choose either 'USD' or 'HKD'."}
                                ELSE {})
              /\ exc' = r.exc
              /\ pc' = IF r.exc = "none" THEN "cutoff" ELSE "raised"
    /\ UNCHANGED <<inputs, rates, received, returns, bests, totals, outcome,
                   final_result, fees>>

\* lines 222-235
ShowResult ==
    /\ pc = "cutoff"
    /\ final_result' = FinalResult(total_ib_return, total_futu_return_usd,
                                   total_preferential_return, total_futu_return_hkd,
                                   best_ib_option, best_futu_option_usd)
    /\ out' = out \cup {"The cutoff conversion rate", "final_result"}
    /\ pc' = "done"
    /\ UNCHANGED <<exc, inputs, rates, received, returns, bests, totals, outcome,
                   report, fees>>

RunStart ==
    /\ pc = "input" /\ exc = "none" /\ out = {}
    /\ capital_hkd = Unset /\ ib_fx_rate = Unset /\ futu_fx_rate = Unset
    /\ futu_annualized_return_usd = Unset /\ futu_annualized_return_hkd = Unset
    /\ preferential_rate_hkd = Unset
    /\ bond_rate_1y = Unset /\ bond_rate_10y = Unset
    /\ best_bond_rate = Unset /\ fed_rate = Unset
    /\ usd_received_ib = Unset /\ usd_received_futu = Unset
    /\ ib_money_market_return = Unset /\ futu_money_market_return_usd = Unset
    /\ ib_bond_return = Unset /\ futu_bond_return = Unset
    /\ futu_money_market_return_hkd = Unset /\ preferential_return = Unset
    /\ best_ib_return = Unset /\ best_ib_option = "" 
    /\ best_futu_return_usd = Unset /\ best_futu_option_usd = ""
    /\ total_ib_return = Unset /\ total_futu_return_usd = Unset
    /\ total_preferential_return = Unset /\ total_futu_return_hkd = Unset
    /\ best_usd_return = Unset /\ best_hkd_return = Unset
    /\ exchange_rate_threshold = Unset
    /\ best_usd_method = Unset /\ best_hkd_method = ""
    /\ preferred_currency = Unset /\ headline = Unset /\ converted_return = Unset
    /\ final_result = Unset

(***************************************************************************)
(* The fee functions on pairs of amounts                                   *)
(***************************************************************************)
FeeStep == 12500
MaxFeeSteps == 88

\* A grid from 0 past the 1,000,000 tier, the amounts around every kink of
\* the three fee functions, and some negative amounts.
FeeAmounts ==
    {Num(k * FeeStep) : k \in 0..MaxFeeSteps}
    \cup {Num(b + d) : b \in {2500, 5000, 37500, 100000, 1000000}, d \in {-1, 0, 1}}
    \cup {Dec(100000001, 2), Num(-1), Num(-100000)}

FeesIdle ==
    /\ fee_pc = {}
    /\ x1 = Unset /\ x2 = Unset
    /\ fx_fee = Unset /\ bond_fee = Unset /\ futu_fee = Unset

FeeInit ==
    /\ RunStart
    /\ fee_pc = {}
    /\ x1 \in FeeAmounts /\ x2 \in FeeAmounts
    /\ fx_fee = Unset /\ bond_fee = Unset /\ futu_fee = Unset

\* lines 37-38
ApplyIbFxFee ==
    /\ x1 # Unset /\ "calculate_ib_fx_fee" \notin fee_pc
    /\ fx_fee' = <<calculate_ib_fx_fee(x1), calculate_ib_fx_fee(x2)>>
    /\ fee_pc' = fee_pc \cup {"calculate_ib_fx_fee"}
    /\ UNCHANGED <<run, x1, x2, bond_fee, futu_fee>>

\* lines 40-44
ApplyIbBondFee ==
    /\ x1 # Unset /\ "calculate_ib_bond_fee" \notin fee_pc
    /\ bond_fee' = <<calculate_ib_bond_fee(x1), calculate_ib_bond_fee(x2)>>
    /\ fee_pc' = fee_pc \cup {"calculate_ib_bond_fee"}
    /\ UNCHANGED <<run, x1, x2, fx_fee, futu_fee>>

\* lines 46-49
ApplyFutuBondFee ==
    /\ x1 # Unset /\ "calculate_futu_bond_fee" \notin fee_pc
    /\ futu_fee' = <<calculate_futu_bond_fee(x1), calculate_futu_bond_fee(x2)>>
    /\ fee_pc' = fee_pc \cup {"calculate_futu_bond_fee"}
    /\ UNCHANGED <<run, x1, x2, fx_fee, bond_fee>>

FeeNext == ApplyIbFxFee \/ ApplyIbBondFee \/ ApplyFutuBondFee

FeeSpec == FeeInit /\ [][FeeNext]_vars

Init == RunStart /\ FeesIdle

Next ==
    \/ CollectInputs
    \/ FetchBondRate1y
    \/ FetchBondRate10y
    \/ CheckBondRates
    \/ FetchFedRate
    \/ UsdReceived
    \/ Returns
    \/ CompareReturns
    \/ Totals
    \/ Threshold
    \/ AskCurrency
    \/ ShowResult

Spec == Init /\ [][Next]_vars

(***************************************************************************)
(* Properties                                                              *)
(***************************************************************************)
IsNumber(v) == Len(v) = 2
Zero == Num(0)

StrictlyBest(t, a, b, c) == RGt(t, a) /\ RGt(t, b) /\ RGt(t, c)

\* C1: once main() has named a winner, no error was raised and the winner is
\* IB iff total_ib_return is strictly greater than the other three totals,
\* else FUTU (USD) iff its total is strictly greater than the other three,
\* else FUTU HK iff its total is strictly greater than the other three, and
\* SCB Preferential in every remaining case (every tie for the maximum).
C1_GlobalWinner ==
    final_result # Unset =>
        LET ib == StrictlyBest(total_ib_return, total_futu_return_usd,
                               total_preferential_return, total_futu_return_hkd)
            fu == StrictlyBest(total_futu_return_usd, total_ib_return,
                               total_preferential_return, total_futu_return_hkd)
            fh == StrictlyBest(total_futu_return_hkd, total_ib_return,
                               total_preferential_return, total_futu_return_usd)
        IN  /\ exc = "none"
            /\ final_result[1] = "IB" <=> ib
            /\ final_result[1] = "FUTU" <=> (~ib /\ fu)
            /\ final_result[1] = "FUTU HK Money Market Fund" <=> (~ib /\ ~fu /\ fh)
            /\ final_result[1] = "SCB Preferential Rate" <=> (~ib /\ ~fu /\ ~fh)

\* C1 witness: the four totals are exactly equal and SCB Preferential is named.
C1_FourWayTie ==
    /\ final_result # Unset
    /\ total_ib_return = total_futu_return_usd
    /\ total_futu_return_usd = total_preferential_return
    /\ total_preferential_return = total_futu_return_hkd
    /\ final_result[1] = "SCB Preferential Rate"

\* C2 as stated: the selected option is the one with the larger return, and
\* on exactly equal returns it is Money Market.
C2_TieSelectsMoneyMarket ==
    best_ib_return # Unset =>
        /\ best_ib_return = PyMax(ib_money_market_return, ib_bond_return)
        /\ best_futu_return_usd = PyMax(futu_money_market_return_usd, futu_bond_return)
        /\ ib_money_market_return = ib_bond_return => best_ib_option = MoneyMarket
        /\ futu_money_market_return_usd = futu_bond_return
               => best_futu_option_usd = MoneyMarket

\* C2 amended: the selected return is the larger of the two; the selected
\* option is Money Market iff the money-market return is strictly greater
\* than the bond return, so on exactly equal returns it is Bond.
C2_TieSelectsBond ==
    best_ib_return # Unset =>
        /\ best_ib_return = PyMax(ib_money_market_return, ib_bond_return)
        /\ best_futu_return_usd = PyMax(futu_money_market_return_usd, futu_bond_return)
        /\ best_ib_option = MoneyMarket <=> RGt(ib_money_market_return, ib_bond_return)
        /\ best_ib_option = Bond <=> RLe(ib_money_market_return, ib_bond_return)
        /\ best_futu_option_usd = MoneyMarket
               <=> RGt(futu_money_market_return_usd, futu_bond_return)
        /\ best_futu_option_usd = Bond
               <=> RLe(futu_money_market_return_usd, futu_bond_return)

\* C2 witness: IB's two returns are exactly equal and Bond is selected.
C2_EqualReturns ==
    /\ best_ib_return # Unset
    /\ ib_money_market_return = ib_bond_return
    /\ best_ib_option = Bond

\* C3 as stated, for runs with positive capital and FX rates: once the run is
\* past the threshold computation with a zero or negative best HKD total, it
\* has reported a DegenerateComparisonError and has produced no threshold.
C3_DegenerateReported ==
    (/\ best_hkd_return # Unset /\ pc # "threshold"
     /\ RGt(capital_hkd, Zero) /\ RGt(ib_fx_rate, Zero) /\ RGt(futu_fx_rate, Zero)
     /\ RLe(best_hkd_return, Zero)) =>
        /\ exc = "DegenerateComparisonError"
        /\ exchange_rate_threshold = Unset

\* C4 as stated: a run whose capital, IB FX rate or FUTU FX rate is zero or
\* negative ends right after input collection with the invalid-input message.
C4_NonPositiveRejected ==
    (capital_hkd # Unset /\ (\/ RLe(capital_hkd, Zero)
                             \/ RLe(ib_fx_rate, Zero)
                             \/ RLe(futu_fx_rate, Zero))) =>
        /\ pc = "returned"
        /\ "Invalid input. Please enter numeric values." \in out

ComparisonSteps ==
    {"usd_received", "returns", "best_of_two", "totals", "threshold", "ask_currency",
     "cutoff", "done"}

NothingCompared ==
    /\ pc \notin ComparisonSteps
    /\ usd_received_ib = Unset /\ usd_received_futu = Unset
    /\ ib_money_market_return = Unset /\ ib_bond_return = Unset
    /\ total_ib_return = Unset /\ best_hkd_return = Unset
    /\ exchange_rate_threshold = Unset /\ final_result = Unset

\* C5: the comparison steps run only with the 1-year yield, the 10-year yield
\* and the fed rate all obtained; once any of the three is unavailable (None,
\* or its fetch raised) no comparison step runs.
C5_RatesBeforeComparison ==
    /\ ~NothingCompared =>
           IsNumber(bond_rate_1y) /\ IsNumber(bond_rate_10y) /\ IsNumber(fed_rate)
    /\ (PyNone \in {bond_rate_1y, bond_rate_10y, fed_rate} \/ exc = "RequestException")
           => NothingCompared
    /\ (pc \in {"fetch_fed_rate"} \cup ComparisonSteps)
           => IsNumber(bond_rate_1y) /\ IsNumber(bond_rate_10y)

\* C5 witness: both yields were obtained, the fed rate was not, and the run
\* has returned.
C5_FedRateUnavailable ==
    /\ IsNumber(bond_rate_1y) /\ IsNumber(bond_rate_10y)
    /\ fed_rate = PyNone
    /\ pc = "returned"

\* C6: whenever the best HKD total is positive the threshold is produced, the
\* two bests are the maxima of their totals, and
\* exchange_rate_threshold * best_hkd_return = best_usd_return.
C6_ThresholdIdentity ==
    (best_hkd_return # Unset /\ pc # "threshold" /\ RGt(best_hkd_return, Zero)) =>
        /\ exchange_rate_threshold # Unset
        /\ best_usd_return = PyMax(total_ib_return, total_futu_return_usd)
        /\ best_hkd_return = PyMax(total_preferential_return, total_futu_return_hkd)
        /\ RMul(exchange_rate_threshold, best_hkd_return) = best_usd_return

\* C6 witness: valid inputs, two different positive HKD totals, a threshold.
C6_ThresholdProduced ==
    /\ exchange_rate_threshold # Unset
    /\ RGt(capital_hkd, Zero) /\ RGt(ib_fx_rate, Zero) /\ RGt(futu_fx_rate, Zero)
    /\ RGt(total_preferential_return, Zero)
    /\ RGt(total_futu_return_hkd, total_preferential_return)

\* C7: for amounts x2 > x1 >= 0 each fee function gives x2 a fee at least as
\* large as x1's.
C7_FeeMonotone ==
    (x1 # Unset /\ RGe(x1, Zero) /\ RGt(x2, x1)) =>
        /\ fx_fee # Unset => RLe(fx_fee[1], fx_fee[2])
        /\ bond_fee # Unset => RLe(bond_fee[1], bond_fee[2])
        /\ futu_fee # Unset => RLe(futu_fee[1], futu_fee[2])

\* C7 witness: a pair that straddles the platform-fee floor, the platform-fee
\* cap and the 1,000,000 tier, with all three fees computed.
C7_StraddlingPair ==
    /\ x1 = Num(4999) /\ x2 = Num(1000001)
    /\ fx_fee # Unset /\ bond_fee # Unset /\ futu_fee # Unset

\* C8 as stated: calculate_ib_fx_fee returns no fee for a negative amount.
C8_NegativeAmountFails ==
    (fx_fee # Unset /\ RLt(x1, Zero)) => ~IsNumber(fx_fee[1])

\* C9: after the currency prompt, a preference that is neither USD nor HKD
\* has the invalid-choice message and neither a headline nor a converted
\* line; USD has best_usd_return as headline and HKD has best_hkd_return.
C9_CurrencyPreference ==
    preferred_currency # Unset =>
        /\ preferred_currency \notin {USD, HKD} =>
               /\ "Invalid input. Please choose either 'USD' or 'HKD'." \in out
               /\ headline = Unset /\ converted_return = Unset
               /\ "Best return" \notin out /\ "Converted return" \notin out
        /\ preferred_currency = USD => headline = <<"USD", best_usd_return>>
        /\ preferred_currency = HKD => headline = <<"HKD", best_hkd_return>>

\* C9 witness: an unrecognized preference was reported.
C9_Unrecognized ==
    /\ preferred_currency = <<"E", "U", "R">>
    /\ "Invalid input. Please choose either 'USD' or 'HKD'." \in out

====
